---- MODULE Spec2Model ----
(***************************************************************************)
(* Helmet detection service: the association test of                       *)
(* HelmetDetectionModel.check_motorcycle_overlap, the per-frame pipeline   *)
(* HelmetDetectionModel.detect and the /process-video handler.             *)
(*                                                                         *)
(* Pixel coordinates are integers.  The code compares                      *)
(* intersection_area > 0.2 * person_area in floating point; on integer     *)
(* coordinates that is 5 * intersection_area > person_area.  Confidences   *)
(* are percentages (conf > 0.5 is conf > 50) and frame rates are in        *)
(* thousandths of a frame per second.                                      *)
(***************************************************************************)
EXTENDS Integers, Sequences, FiniteSets

VARIABLES
    \* check_motorcycle_overlap, one call
    o_pc,            \* "call", "loop", "returned"
    person_box,      \* the person_box argument, <<x1, y1, x2, y2>>
    n_boxes,         \* len(motorcycle_boxes)
    k,               \* motorcycle boxes examined so far by the for loop
    mbox,            \* the loop variable (mx1, my1, mx2, my2)
    o_result,        \* the value returned
    anySignificant,  \* history: some examined box covers > 20% of the person
    \* detect, one call
    d_pc,            \* "call", "motorcycles", "persons", "returned", "raised"
    d_error,         \* what raised out of detect: "none", "detector", "classifier"
    motorcycle_results, \* motorcycle_results.xyxy[0]
    motorcycle_boxes,
    n_persons,       \* len(results.xyxy[0])
    seen,            \* history: the person predictions the loop has consumed
    detections,
    \* process_video, one request
    v_pc,            \* "request", "open", "loop", "finish", "except", "done"
    video,           \* the uploaded source: frame rate and number of frames
    temp_created,    \* history: the upload was saved to a temporary file
    temp_exists,     \* os.path.exists(video_path)
    unlinks,         \* history: calls of os.unlink(video_path)
    frame_interval,
    frame_number,
    all_detections,
    detect_calls,    \* history: the frames handed to model.detect, with their index
    response

ovars == <<o_pc, person_box, n_boxes, k, mbox, o_result, anySignificant>>

dvars == <<d_pc, d_error, motorcycle_results, motorcycle_boxes, n_persons, seen, detections>>

vvars == <<v_pc, video, temp_created, temp_exists, unlinks, frame_interval, frame_number,
           all_detections, detect_calls, response>>

vars == <<ovars, dvars, vvars>>

----------------------------------------------------------------------------
\* Bounds of the model

MaxX == 3            \* x coordinates range over 0..MaxX
MaxY == 2            \* y coordinates range over 0..MaxY
MaxMoto == 2         \* motorcycle boxes handed to one overlap call

XCoords == 0..MaxX

YCoords == 0..MaxY

\* BoundingBox: x1 <= x2 and y1 <= y2
Boxes == {b \in XCoords \X YCoords \X XCoords \X YCoords : b[1] <= b[3] /\ b[2] <= b[4]}

NoBox == <<0, 0, 0, 0>>

----------------------------------------------------------------------------
\* Geometry

Max(a, b) == IF a >= b THEN a ELSE b

Min(a, b) == IF a <= b THEN a ELSE b

\* (px2 - px1) * (py2 - py1)
Area(b) == (b[3] - b[1]) * (b[4] - b[2])

\* Area of the geometric intersection of two boxes (0 when they are disjoint)
IntersectionArea(a, b) ==
    Max(0, Min(a[3], b[3]) - Max(a[1], b[1])) * Max(0, Min(a[4], b[4]) - Max(a[2], b[2]))

\* inner lies inside outer
Contains(outer, inner) ==
    /\ outer[1] <= inner[1] /\ inner[3] <= outer[3]
    /\ outer[2] <= inner[2] /\ inner[4] <= outer[4]

\* intersection_area > 0.2 * person_area
Significant(intersection_area, person_area) == 5 * intersection_area > person_area

\* Variant of the loop body that omits the no-overlap test
OverlapsOneUnguarded(p, m) ==
    LET x_left == Max(p[1], m[1])
        y_top == Max(p[2], m[2])
        x_right == Min(p[3], m[3])
        y_bottom == Min(p[4], m[4])
    IN Significant((x_right - x_left) * (y_bottom - y_top), Area(p))

\* Variant of the loop body that measures against the motorcycle's area
OverlapsOneOfMotorcycle(p, m) ==
    LET x_left == Max(p[1], m[1])
        y_top == Max(p[2], m[2])
        x_right == Min(p[3], m[3])
        y_bottom == Min(p[4], m[4])
    IN IF x_right < x_left \/ y_bottom < y_top
       THEN FALSE
       ELSE Significant((x_right - x_left) * (y_bottom - y_top), Area(m))

\* One iteration of the for loop of check_motorcycle_overlap: TRUE when the
\* iteration returns True, FALSE when it falls through to the next box
OverlapsOne(p, m) ==
    LET x_left == Max(p[1], m[1])
        y_top == Max(p[2], m[2])
        x_right == Min(p[3], m[3])
        y_bottom == Min(p[4], m[4])
    IN IF x_right < x_left \/ y_bottom < y_top
       THEN FALSE
       ELSE Significant((x_right - x_left) * (y_bottom - y_top), Area(p))

RECURSIVE check_motorcycle_overlap(_, _)
check_motorcycle_overlap(p, boxes) ==
    IF boxes = <<>>
    THEN FALSE
    ELSE IF OverlapsOne(p, Head(boxes))
         THEN TRUE
         ELSE check_motorcycle_overlap(p, Tail(boxes))

----------------------------------------------------------------------------
\* The variables of a call that is not running

OverlapIdle ==
    /\ o_pc = "idle"
    /\ person_box = NoBox
    /\ n_boxes = 0
    /\ k = 0
    /\ mbox = NoBox
    /\ o_result = FALSE
    /\ anySignificant = FALSE

----------------------------------------------------------------------------
\* detect: predictions, head crop, helmet classifier

PERSON == 0          \* COCO class of the person detector
MOTORCYCLE == 3      \* COCO class of the motorcycle detector
ConfThreshold == 50  \* conf > 0.5

\* Boxes the detectors report in the frames of the model
BikeBox == <<0, 0, 8, 6>>
RiderBox == <<2, 0, 6, 5>>        \* inside the bike's box
ThinRiderBox == <<2, 0, 6, 2>>    \* inside the bike's box, head crop of no rows
PedestrianBox == <<12, 0, 15, 8>> \* away from the bike's box

Pred(box, conf, cls) == [box |-> box, conf |-> conf, cls |-> cls]

MotorcyclePreds ==
    {Pred(BikeBox, 90, MOTORCYCLE), Pred(BikeBox, 50, MOTORCYCLE),
     Pred(<<20, 0, 28, 6>>, 90, MOTORCYCLE)}

PersonPreds ==
    {Pred(RiderBox, 90, PERSON), Pred(RiderBox, 50, PERSON),
     Pred(ThinRiderBox, 80, PERSON), Pred(PedestrianBox, 60, PERSON)}

\* What the helmet classifier does on a person's head crop
ClassifierOutcomes == {"helmet", "no_helmet", "raise"}

\* A person prediction together with the classifier's behaviour on its crop
PersonEntries == [pred : PersonPreds, clf : ClassifierOutcomes]

MaxPersons == 3      \* person predictions in one frame
MaxMotorcycles == 2  \* motorcycle predictions in one frame

SeqsUpTo(S, n) == UNION {[1..m -> S] : m \in 0..n}

\* motorcycle_boxes: the boxes of the predictions with int(cls) == 3 and conf > 0.5
RECURSIVE ExtractMotorcycleBoxes(_)
ExtractMotorcycleBoxes(preds) ==
    IF preds = <<>>
    THEN <<>>
    ELSE LET p == Head(preds)
         IN (IF p.cls = MOTORCYCLE /\ p.conf > ConfThreshold THEN <<p.box>> ELSE <<>>)
            \o ExtractMotorcycleBoxes(Tail(preds))

\* head_y2 = int(y1 + (y2-y1) * 0.3)
HeadY2(box) == (10 * box[2] + 3 * (box[4] - box[2])) \div 10

\* head_roi.size of image[int(y1):head_y2, int(x1):int(x2)], three channels
HeadRoiSize(box) == Max(0, HeadY2(box) - box[2]) * Max(0, box[3] - box[1]) * 3

\* Variant: the classifier's exception is not caught
DetectHelmetUncaught(head_size, clf) ==
    IF head_size = 0
    THEN [raised |-> FALSE, value |-> FALSE]
    ELSE [raised |-> clf = "raise", value |-> clf = "helmet"]

\* detect_helmet: raised tells whether an exception leaves the function
detect_helmet(head_size, clf) ==
    IF head_size = 0
    THEN [raised |-> FALSE, value |-> FALSE]
    ELSE IF clf = "raise"
         THEN [raised |-> FALSE, value |-> FALSE]
         ELSE [raised |-> FALSE, value |-> clf = "helmet"]

\* The dictionary appended for one person
Detection(p, has_helmet, is_on_motorcycle) ==
    [bbox |-> <<p.box[1], p.box[2], p.box[3] - p.box[1], p.box[4] - p.box[2]>>,
     confidence |-> p.conf,
     class |-> p.cls,
     has_helmet |-> has_helmet,
     on_motorcycle |-> is_on_motorcycle]

\* Variant of the reporting test: a person is reported only when on a motorcycle
ReportedOnlyOnMotorcycle(boxes, is_on_motorcycle) == is_on_motorcycle

\* len(motorcycle_boxes) == 0 or is_on_motorcycle
Reported(boxes, is_on_motorcycle) == Len(boxes) = 0 \/ is_on_motorcycle

\* One iteration of the person loop of detect: raised tells whether an
\* exception leaves the iteration, emit is what it appends to detections
PersonStep(e, boxes) ==
    LET p == e.pred
    IN IF p.cls = PERSON /\ p.conf > ConfThreshold
       THEN LET is_on_motorcycle == check_motorcycle_overlap(p.box, boxes)
                h == detect_helmet(HeadRoiSize(p.box), e.clf)
            IN [raised |-> h.raised,
                emit |-> IF ~h.raised /\ Reported(boxes, is_on_motorcycle)
                         THEN <<Detection(p, h.value, is_on_motorcycle)>>
                         ELSE <<>>]
       ELSE [raised |-> FALSE, emit |-> <<>>]

NoResponse == [status |-> 0]

VideoIdle ==
    /\ v_pc = "idle"
    /\ video = [fps |-> 0, frames |-> 0]
    /\ temp_created = FALSE
    /\ temp_exists = FALSE
    /\ unlinks = 0
    /\ frame_interval = 0
    /\ frame_number = 0
    /\ all_detections = <<>>
    /\ detect_calls = <<>>
    /\ response = NoResponse

DetectIdle ==
    /\ d_pc = "idle"
    /\ d_error = "none"
    /\ motorcycle_results = <<>>
    /\ motorcycle_boxes = <<>>
    /\ n_persons = 0
    /\ seen = <<>>
    /\ detections = <<>>

DetectInit ==
    /\ d_pc = "call"
    /\ d_error = "none"
    /\ motorcycle_results = <<>>
    /\ motorcycle_boxes = <<>>
    /\ n_persons = 0
    /\ seen = <<>>
    /\ detections = <<>>
    /\ OverlapIdle
    /\ VideoIdle

\* results = self.person_detector(image); motorcycle_results = self.motorcycle_detector(image)
RunDetectors ==
    /\ d_pc = "call"
    /\ motorcycle_results' \in SeqsUpTo(MotorcyclePreds, MaxMotorcycles)
    /\ n_persons' \in 0..MaxPersons
    /\ d_pc' = "motorcycles"
    /\ UNCHANGED <<d_error, motorcycle_boxes, seen, detections, ovars, vvars>>

\* a detector raises: nothing in detect catches it
DetectorRaises ==
    /\ d_pc = "call"
    /\ d_pc' = "raised"
    /\ d_error' = "detector"
    /\ UNCHANGED <<motorcycle_results, motorcycle_boxes, n_persons, seen, detections, ovars, vvars>>

\* the loop over motorcycle_results.xyxy[0]
CollectMotorcycles ==
    /\ d_pc = "motorcycles"
    /\ motorcycle_boxes' = ExtractMotorcycleBoxes(motorcycle_results)
    /\ d_pc' = "persons"
    /\ UNCHANGED <<d_error, motorcycle_results, n_persons, seen, detections, ovars, vvars>>

\* one iteration of the loop over results.xyxy[0]
ProcessPerson ==
    /\ d_pc = "persons"
    /\ Len(seen) < n_persons
    /\ \E e \in PersonEntries :
        LET r == PersonStep(e, motorcycle_boxes)
        IN /\ seen' = Append(seen, e)
           /\ detections' = detections \o r.emit
           /\ d_pc' = IF r.raised THEN "raised" ELSE "persons"
           /\ d_error' = IF r.raised THEN "classifier" ELSE d_error
    /\ UNCHANGED <<motorcycle_results, motorcycle_boxes, n_persons, ovars, vvars>>

\* return detections
DetectReturn ==
    /\ d_pc = "persons"
    /\ Len(seen) = n_persons
    /\ d_pc' = "returned"
    /\ UNCHANGED <<d_error, motorcycle_results, motorcycle_boxes, n_persons, seen, detections, ovars, vvars>>

DetectNext ==
    \/ RunDetectors
    \/ DetectorRaises
    \/ CollectMotorcycles
    \/ ProcessPerson
    \/ DetectReturn

SpecDetect == DetectInit /\ [][DetectNext]_vars

\* detect as a function of the frame: what the detectors report on it and
\* what the classifier does on each person's head crop
RECURSIVE PersonLoop(_, _)
PersonLoop(entries, boxes) ==
    IF entries = <<>>
    THEN [raised |-> FALSE, detections |-> <<>>]
    ELSE LET r == PersonStep(Head(entries), boxes)
         IN IF r.raised
            THEN [raised |-> TRUE, detections |-> <<>>]
            ELSE LET rest == PersonLoop(Tail(entries), boxes)
                 IN [raised |-> rest.raised,
                     detections |-> IF rest.raised THEN <<>> ELSE r.emit \o rest.detections]

detect(frame) ==
    IF ~frame.detectors_ok
    THEN [raised |-> TRUE, detections |-> <<>>]
    ELSE PersonLoop(frame.persons, ExtractMotorcycleBoxes(frame.motorcycles))

----------------------------------------------------------------------------
\* process_video

MaxFrames == 5       \* frames of a short video

\* Frame rates the source reports, in thousandths of a frame per second
FrameRates == {500, 1000, 1500, 2500, 3000, 23976, 29970, 30000}

\* The uploaded videos: short ones at every rate, and 95 frames at 30 fps
Videos ==
    [fps : FrameRates, frames : 0..MaxFrames] \cup {[fps |-> 30000, frames |-> 95]}

Entry(pred, clf) == [pred |-> pred, clf |-> clf]

\* What a frame shows: the detectors' predictions on it and the classifier's
\* behaviour on each person's head crop
EmptyFrame == [detectors_ok |-> TRUE, motorcycles |-> <<>>, persons |-> <<>>]

RiderFrame ==
    [detectors_ok |-> TRUE,
     motorcycles |-> <<Pred(BikeBox, 90, MOTORCYCLE)>>,
     persons |-> <<Entry(Pred(RiderBox, 90, PERSON), "helmet"),
                   Entry(Pred(PedestrianBox, 60, PERSON), "no_helmet")>>]

StreetFrame ==
    [detectors_ok |-> TRUE,
     motorcycles |-> <<>>,
     persons |-> <<Entry(Pred(PedestrianBox, 60, PERSON), "no_helmet"),
                   Entry(Pred(RiderBox, 90, PERSON), "helmet")>>]

BareHeadFrame ==
    [detectors_ok |-> TRUE,
     motorcycles |-> <<Pred(BikeBox, 90, MOTORCYCLE)>>,
     persons |-> <<Entry(Pred(RiderBox, 90, PERSON), "raise")>>]

BrokenFrame == [detectors_ok |-> FALSE, motorcycles |-> <<>>, persons |-> <<>>]

VideoFrames == {EmptyFrame, RiderFrame, StreetFrame, BareHeadFrame, BrokenFrame}

\* Variant: round(fps), Python's round (ties go to the even integer)
RoundedFrameInterval(fps) ==
    LET q == fps \div 1000
        r == fps % 1000
        rounded == IF r < 500 THEN q
                   ELSE IF r > 500 THEN q + 1
                   ELSE IF q % 2 = 0 THEN q ELSE q + 1
    IN Max(1, rounded)

\* frame_interval = max(1, int(fps))
FrameInterval(fps) == Max(1, fps \div 1000)

\* Variant: the last frame of each interval is sampled
SampledLast(number, interval) == number % interval = interval - 1

\* frame_number % frame_interval == 0
Sampled(number, interval) == number % interval = 0

\* Variant: tags with the number of the next frame
TagFramesNext(dets, number) ==
    [i \in 1..Len(dets) |->
        [bbox |-> dets[i].bbox, confidence |-> dets[i].confidence, class |-> dets[i].class,
         has_helmet |-> dets[i].has_helmet, on_motorcycle |-> dets[i].on_motorcycle,
         frame |-> number + 1]]

\* for detection in detections: detection['frame'] = frame_number
TagFrames(dets, number) ==
    [i \in 1..Len(dets) |->
        [bbox |-> dets[i].bbox, confidence |-> dets[i].confidence, class |-> dets[i].class,
         has_helmet |-> dets[i].has_helmet, on_motorcycle |-> dets[i].on_motorcycle,
         frame |-> number]]

\* Variant: rounds up
ProcessedFramesUp(number, interval) == (number + interval - 1) \div interval

\* frame_number // frame_interval
ProcessedFrames(number, interval) == number \div interval

\* Variant: counts the persons on a motorcycle
RECURSIVE PeopleOnMotorcycles(_)
PeopleOnMotorcycles(dets) ==
    IF dets = <<>>
    THEN 0
    ELSE (IF Head(dets).on_motorcycle THEN 1 ELSE 0) + PeopleOnMotorcycles(Tail(dets))

\* sum(1 for d in all_detections if d['has_helmet'])
RECURSIVE PeopleWithHelmets(_)
PeopleWithHelmets(dets) ==
    IF dets = <<>>
    THEN 0
    ELSE (IF Head(dets).has_helmet THEN 1 ELSE 0) + PeopleWithHelmets(Tail(dets))

\* (people_with_helmets / total_people * 100) if total_people > 0 else 0,
\* as the fraction num / den
HelmetPercentage(with_helmets, total) ==
    IF total > 0
    THEN [num |-> with_helmets * 100, den |-> total]
    ELSE [num |-> 0, den |-> 1]

ErrorResponse(status) == [status |-> status]

VideoInit ==
    /\ v_pc = "request"
    /\ video \in Videos
    /\ temp_created = FALSE
    /\ temp_exists = FALSE
    /\ unlinks = 0
    /\ frame_interval = 0
    /\ frame_number = 0
    /\ all_detections = <<>>
    /\ detect_calls = <<>>
    /\ response = NoResponse
    /\ OverlapIdle
    /\ DetectIdle

\* 'video' not in request.files
NoVideoProvided ==
    /\ v_pc = "request"
    /\ v_pc' = "done"
    /\ response' = ErrorResponse(400)
    /\ UNCHANGED <<video, temp_created, temp_exists, unlinks, frame_interval, frame_number,
                   all_detections, detect_calls, ovars, dvars>>

\* the upload is saved to a NamedTemporaryFile(delete=False)
SaveUpload ==
    /\ v_pc = "request"
    /\ v_pc' = "open"
    /\ temp_created' = TRUE
    /\ temp_exists' = TRUE
    /\ UNCHANGED <<video, unlinks, frame_interval, frame_number, all_detections,
                   detect_calls, response, ovars, dvars>>

\* not cap.isOpened(): return 'Could not open video file', 400
OpenFails ==
    /\ v_pc = "open"
    /\ v_pc' = "done"
    /\ response' = ErrorResponse(400)
    /\ UNCHANGED <<video, temp_created, temp_exists, unlinks, frame_interval, frame_number,
                   all_detections, detect_calls, ovars, dvars>>

\* the capture opens: fps, frame_interval, all_detections = [], frame_number = 0
OpenVideo ==
    /\ v_pc = "open"
    /\ v_pc' = "loop"
    /\ frame_interval' = FrameInterval(video.fps)
    /\ all_detections' = <<>>
    /\ frame_number' = 0
    /\ UNCHANGED <<video, temp_created, temp_exists, unlinks, detect_calls, response,
                   ovars, dvars>>

\* one iteration on a frame on the interval: detect, tag, extend
ReadSampled ==
    /\ v_pc = "loop"
    /\ frame_number < video.frames
    /\ Sampled(frame_number, frame_interval)
    /\ \E frame \in VideoFrames :
        LET r == detect(frame)
        IN /\ ~r.raised
           /\ detect_calls' = Append(detect_calls, [index |-> frame_number, frame |-> frame])
           /\ all_detections' = all_detections \o TagFrames(r.detections, frame_number)
    /\ frame_number' = frame_number + 1
    /\ UNCHANGED <<v_pc, video, temp_created, temp_exists, unlinks, frame_interval, response,
                   ovars, dvars>>

\* one iteration on a frame on the interval: detect raises
ReadSampledRaises ==
    /\ v_pc = "loop"
    /\ frame_number < video.frames
    /\ Sampled(frame_number, frame_interval)
    /\ \E frame \in VideoFrames :
        /\ detect(frame).raised
        /\ detect_calls' = Append(detect_calls, [index |-> frame_number, frame |-> frame])
    /\ v_pc' = "except"
    /\ UNCHANGED <<video, temp_created, temp_exists, unlinks, frame_interval, frame_number,
                   all_detections, response, ovars, dvars>>

\* one iteration on a frame off the interval
ReadSkipped ==
    /\ v_pc = "loop"
    /\ frame_number < video.frames
    /\ ~Sampled(frame_number, frame_interval)
    /\ frame_number' = frame_number + 1
    /\ UNCHANGED <<v_pc, video, temp_created, temp_exists, unlinks, frame_interval,
                   all_detections, detect_calls, response, ovars, dvars>>

\* cap.read() returns ret = False: break
ReadEnd ==
    /\ v_pc = "loop"
    /\ frame_number = video.frames
    /\ v_pc' = "finish"
    /\ UNCHANGED <<video, temp_created, temp_exists, unlinks, frame_interval, frame_number,
                   all_detections, detect_calls, response, ovars, dvars>>

\* cap.release(), the statistics, os.unlink(video_path), the response
Finish ==
    /\ v_pc = "finish"
    /\ LET total_people == Len(all_detections)
           people_with_helmets == PeopleWithHelmets(all_detections)
           people_without_helmets == total_people - people_with_helmets
       IN response' =
            [status |-> 200,
             detections |-> all_detections,
             processed_frames |-> ProcessedFrames(frame_number, frame_interval),
             total_people |-> total_people,
             people_with_helmets |-> people_with_helmets,
             people_without_helmets |-> people_without_helmets,
             helmet_percentage |-> HelmetPercentage(people_with_helmets, total_people)]
    /\ temp_exists' = FALSE
    /\ unlinks' = unlinks + 1
    /\ v_pc' = "done"
    /\ UNCHANGED <<video, temp_created, frame_interval, frame_number, all_detections,
                   detect_calls, ovars, dvars>>

\* except Exception: unlink the file if it exists, return 500
HandleException ==
    /\ v_pc = "except"
    /\ temp_exists' = FALSE
    /\ unlinks' = IF temp_exists THEN unlinks + 1 ELSE unlinks
    /\ response' = ErrorResponse(500)
    /\ v_pc' = "done"
    /\ UNCHANGED <<video, temp_created, frame_interval, frame_number, all_detections,
                   detect_calls, ovars, dvars>>

Init == VideoInit

Next ==
    \/ NoVideoProvided
    \/ SaveUpload
    \/ OpenFails
    \/ OpenVideo
    \/ ReadSampled
    \/ ReadSampledRaises
    \/ ReadSkipped
    \/ ReadEnd
    \/ Finish
    \/ HandleException

Spec == Init /\ [][Next]_vars

----------------------------------------------------------------------------
\* check_motorcycle_overlap, stepped through its loop.  The boxes of the list
\* are supplied as the loop reaches them.

OverlapInit ==
    /\ o_pc = "call"
    /\ person_box \in Boxes
    /\ n_boxes \in 0..MaxMoto
    /\ k = 0
    /\ mbox = NoBox
    /\ o_result = FALSE
    /\ anySignificant = FALSE
    /\ DetectIdle
    /\ VideoIdle

\* if not motorcycle_boxes: return False
OverlapEmpty ==
    /\ o_pc = "call"
    /\ n_boxes = 0
    /\ o_pc' = "returned"
    /\ o_result' = FALSE
    /\ UNCHANGED <<person_box, n_boxes, k, mbox, anySignificant, dvars, vvars>>

OverlapEnter ==
    /\ o_pc = "call"
    /\ n_boxes > 0
    /\ o_pc' = "loop"
    /\ UNCHANGED <<person_box, n_boxes, k, mbox, o_result, anySignificant, dvars, vvars>>

\* one iteration that returns True
OverlapHit ==
    /\ o_pc = "loop"
    /\ k < n_boxes
    /\ \E m \in Boxes :
        /\ OverlapsOne(person_box, m)
        /\ mbox' = m
        /\ anySignificant' =
             (anySignificant \/ 5 * IntersectionArea(person_box, m) > Area(person_box))
    /\ k' = k + 1
    /\ o_pc' = "returned"
    /\ o_result' = TRUE
    /\ UNCHANGED <<person_box, n_boxes, dvars, vvars>>

\* one iteration that goes on to the next box
OverlapMiss ==
    /\ o_pc = "loop"
    /\ k < n_boxes
    /\ \E m \in Boxes :
        /\ ~OverlapsOne(person_box, m)
        /\ mbox' = m
        /\ anySignificant' =
             (anySignificant \/ 5 * IntersectionArea(person_box, m) > Area(person_box))
    /\ k' = k + 1
    /\ UNCHANGED <<o_pc, person_box, n_boxes, o_result, dvars, vvars>>

\* the list is exhausted: return False
OverlapExhausted ==
    /\ o_pc = "loop"
    /\ k = n_boxes
    /\ o_pc' = "returned"
    /\ o_result' = FALSE
    /\ UNCHANGED <<person_box, n_boxes, k, mbox, anySignificant, dvars, vvars>>

OverlapNext ==
    \/ OverlapEmpty
    \/ OverlapEnter
    \/ OverlapHit
    \/ OverlapMiss
    \/ OverlapExhausted

SpecOverlap == OverlapInit /\ [][OverlapNext]_vars

----------------------------------------------------------------------------
\* Properties

\* Declarative counterparts of what detect computes, for the properties below
Qualifies(pred, cls) == pred.cls = cls /\ pred.conf > ConfThreshold

QualifyingMotorcycleBoxes ==
    {motorcycle_results[i].box : i \in {j \in DOMAIN motorcycle_results :
                                          Qualifies(motorcycle_results[j], MOTORCYCLE)}}

OnSomeMotorcycle(box) ==
    \E m \in QualifyingMotorcycleBoxes : 5 * IntersectionArea(box, m) > Area(box)

ShouldReport(e) ==
    /\ Qualifies(e.pred, PERSON)
    /\ QualifyingMotorcycleBoxes = {} \/ OnSomeMotorcycle(e.pred.box)

ReportedEntries == SelectSeq(seen, ShouldReport)

\* C1: when detect returns, its output lists, in order, exactly the persons
\* with confidence > 0.5 if no motorcycle with confidence > 0.5 was detected,
\* and exactly those of them that are on a motorcycle otherwise
ReportingFilter ==
    d_pc = "returned" =>
        /\ Len(detections) = Len(ReportedEntries)
        /\ \A i \in DOMAIN detections :
            /\ detections[i].bbox[1] = ReportedEntries[i].pred.box[1]
            /\ detections[i].bbox[2] = ReportedEntries[i].pred.box[2]
            /\ detections[i].bbox[3] + detections[i].bbox[1] = ReportedEntries[i].pred.box[3]
            /\ detections[i].bbox[4] + detections[i].bbox[2] = ReportedEntries[i].pred.box[4]
            /\ detections[i].confidence = ReportedEntries[i].pred.conf
            /\ detections[i].on_motorcycle = OnSomeMotorcycle(ReportedEntries[i].pred.box)
            /\ QualifyingMotorcycleBoxes # {} => detections[i].on_motorcycle

\* C1 witness: one motorcycle, a rider on it and a pedestrian away from it,
\* and exactly one detection, the rider
ReportingFilterWitness ==
    /\ d_pc = "returned"
    /\ Len(motorcycle_boxes) = 1
    /\ Len(seen) = 2
    /\ seen[1].pred = Pred(PedestrianBox, 60, PERSON)
    /\ seen[2].pred = Pred(RiderBox, 90, PERSON)
    /\ Len(detections) = 1
    /\ detections[1].on_motorcycle
    /\ detections[1].bbox = <<2, 0, 4, 5>>

HelmetSeen(e) == HeadRoiSize(e.pred.box) > 0 /\ e.clf = "helmet"

\* C2: no exception of the classifier leaves detect, every person of the
\* frame is processed, and each reported person's has_helmet is decided by
\* that person's own head crop alone: false when the crop is empty or the
\* classifier raises on it, the classifier's answer otherwise
ClassifierFailureLocal ==
    /\ d_error # "classifier"
    /\ d_pc = "returned" =>
        /\ Len(seen) = n_persons
        /\ Len(detections) = Len(ReportedEntries)
        /\ \A i \in DOMAIN detections :
            detections[i].has_helmet = HelmetSeen(ReportedEntries[i])

\* C2 witness: three persons, the classifier raises on the second one's
\* head crop and the third one's head crop is empty; all three are reported
\* and the first keeps the helmet
ClassifierFailureWitness ==
    /\ d_pc = "returned"
    /\ motorcycle_boxes = <<>>
    /\ Len(seen) = 3
    /\ seen[1] = Entry(Pred(RiderBox, 90, PERSON), "helmet")
    /\ seen[2] = Entry(Pred(PedestrianBox, 60, PERSON), "raise")
    /\ seen[3] = Entry(Pred(ThinRiderBox, 80, PERSON), "helmet")
    /\ Len(detections) = 3
    /\ detections[1].has_helmet
    /\ ~detections[2].has_helmet
    /\ ~detections[3].has_helmet

IntervalSet == v_pc \in {"loop", "finish", "except"} \/ (v_pc = "done" /\ response.status # 400)

\* C3 as claimed: the sampling interval is max(1, round(fps))
IntervalIsRounded ==
    IntervalSet => frame_interval = RoundedFrameInterval(video.fps)

\* C3 amended: the sampling interval is max(1, int(fps)), the frame rate
\* truncated to an integer with a floor of 1
IntervalIsTruncated ==
    IntervalSet =>
        /\ frame_interval >= 1
        /\ video.fps < 1000 => frame_interval = 1
        /\ video.fps >= 1000 =>
            /\ 1000 * frame_interval <= video.fps
            /\ video.fps < 1000 * (frame_interval + 1)

\* C3 witness: at 29.97 fps the interval is 29
IntervalWitness == v_pc = "loop" /\ video.fps = 29970 /\ frame_interval = 29

CallIndices == {detect_calls[i].index : i \in DOMAIN detect_calls}

MultiplesBelow(n) == {i \in 0..(n - 1) : i % frame_interval = 0}

LoopEnded == v_pc = "finish" \/ (v_pc = "done" /\ response.status = 200)

\* C4: detect is called only on frames whose index is a multiple of the
\* interval, at most once each and in increasing order; while the loop runs
\* it has been called on every such frame read so far, and the loop ends
\* only when all frames of the source were read, detect then having been
\* called exactly once on each multiple of the interval
SamplingExact ==
    /\ \A i \in DOMAIN detect_calls : detect_calls[i].index % frame_interval = 0
    /\ \A i, j \in DOMAIN detect_calls : i < j => detect_calls[i].index < detect_calls[j].index
    /\ v_pc = "loop" => CallIndices = MultiplesBelow(frame_number)
    /\ LoopEnded =>
        /\ frame_number = video.frames
        /\ CallIndices = MultiplesBelow(video.frames)
        /\ Len(detect_calls) = Cardinality(MultiplesBelow(video.frames))
        /\ (video.fps = 30000 /\ video.frames = 95) => CallIndices = {0, 30, 60, 90}

\* C4 witness: 95 frames at 30 fps, sampled at 0, 30, 60 and 90
SamplingWitness ==
    /\ LoopEnded
    /\ video = [fps |-> 30000, frames |-> 95]
    /\ Len(detect_calls) = 4
    /\ detect_calls[4].index = 90

\* C5: processed_frames is floor(frames read / interval): the number of
\* detect calls when the frames read are a multiple of the interval, one less
\* otherwise
ProcessedFramesUndercount ==
    (v_pc = "done" /\ response.status = 200) =>
        /\ response.processed_frames * frame_interval <= video.frames
        /\ video.frames < (response.processed_frames + 1) * frame_interval
        /\ video.frames % frame_interval = 0 =>
               response.processed_frames = Len(detect_calls)
        /\ video.frames % frame_interval # 0 =>
               response.processed_frames = Len(detect_calls) - 1

\* C5 witness: 95 frames at 30 fps report 3 processed frames after 4 detect calls
ProcessedFramesWitness ==
    /\ v_pc = "done"
    /\ response.status = 200
    /\ video = [fps |-> 30000, frames |-> 95]
    /\ response.processed_frames = 3
    /\ Len(detect_calls) = 4

\* What detect returned for the calls made so far, call after call
RECURSIVE ReturnedBy(_)
ReturnedBy(calls) ==
    IF calls = <<>>
    THEN <<>>
    ELSE LET dets == detect(Head(calls).frame).detections
         IN [i \in 1..Len(dets) |-> [index |-> Head(calls).index, det |-> dets[i]]]
            \o ReturnedBy(Tail(calls))

\* C6: all_detections holds, in order, every detection detect returned for
\* the sampled frames, once each, tagged with the index of its frame; the
\* tags are multiples of the interval, below the number of frames read, and
\* never decrease along the sequence
OutputOrderAndTags ==
    LET returned == ReturnedBy(detect_calls)
    IN /\ Len(all_detections) = Len(returned)
       /\ \A i \in DOMAIN all_detections :
            /\ all_detections[i].frame = returned[i].index
            /\ all_detections[i].bbox = returned[i].det.bbox
            /\ all_detections[i].confidence = returned[i].det.confidence
            /\ all_detections[i].has_helmet = returned[i].det.has_helmet
            /\ all_detections[i].on_motorcycle = returned[i].det.on_motorcycle
            /\ all_detections[i].frame % frame_interval = 0
            /\ all_detections[i].frame < video.frames
            /\ v_pc = "loop" => all_detections[i].frame < frame_number
       /\ \A i, j \in DOMAIN all_detections :
            i < j => all_detections[i].frame <= all_detections[j].frame
       /\ (v_pc = "done" /\ response.status = 200) => response.detections = all_detections

\* C6 witness: two detections of frame 0 followed by one of frame 2
OutputOrderWitness ==
    /\ v_pc = "done"
    /\ response.status = 200
    /\ frame_interval = 2
    /\ Len(response.detections) = 3
    /\ response.detections[1].frame = 0
    /\ response.detections[1].bbox = <<12, 0, 3, 8>>
    /\ response.detections[2].frame = 0
    /\ response.detections[2].bbox = <<2, 0, 4, 5>>
    /\ response.detections[3].frame = 2

HelmetIndices(dets) == {i \in DOMAIN dets : dets[i].has_helmet}

\* C7: total_people is the number of detections, people_with_helmets the
\* number of them with has_helmet, people_without_helmets the rest, and
\* helmet_percentage is people_with_helmets / total_people * 100, or 0 when
\* there is no detection
VideoStatistics ==
    (v_pc = "done" /\ response.status = 200) =>
        /\ response.total_people = Len(response.detections)
        /\ response.people_with_helmets = Cardinality(HelmetIndices(response.detections))
        /\ response.people_without_helmets >= 0
        /\ response.people_with_helmets >= 0
        /\ response.people_with_helmets + response.people_without_helmets
             = response.total_people
        /\ response.helmet_percentage.den > 0
        /\ response.total_people > 0 =>
             response.helmet_percentage.num * response.total_people
               = response.people_with_helmets * 100 * response.helmet_percentage.den
        /\ response.total_people = 0 => response.helmet_percentage.num = 0

\* C7 witness: 5 detections, 3 with helmets, 2 without, 60 percent
VideoStatisticsWitness ==
    /\ v_pc = "done"
    /\ response.status = 200
    /\ response.total_people = 5
    /\ response.people_with_helmets = 3
    /\ response.people_without_helmets = 2
    /\ response.helmet_percentage.num = 60 * response.helmet_percentage.den

\* C8: check_motorcycle_overlap returns False on an empty list; otherwise it
\* returns True exactly when some box of the list intersects the person box
\* in more than 0.2 of the person box's area, a False coming only after the
\* whole list was examined; and exchanging two boxes does not change it
AssociationPolicy ==
    /\ o_pc = "returned" =>
        /\ n_boxes = 0 => o_result = FALSE
        /\ o_result = anySignificant
        /\ o_result = FALSE => k = n_boxes
    /\ (o_pc = "returned" /\ n_boxes = 1) =>
        \A m \in Boxes :
            /\ check_motorcycle_overlap(person_box, <<mbox, m>>)
                 = check_motorcycle_overlap(person_box, <<m, mbox>>)
            /\ check_motorcycle_overlap(person_box, <<mbox, m>>)
                 = (\/ 5 * IntersectionArea(person_box, mbox) > Area(person_box)
                    \/ 5 * IntersectionArea(person_box, m) > Area(person_box))
    /\ check_motorcycle_overlap(person_box, <<>>) = FALSE

\* C8 witness: the first box misses, the second covers part of the person
\* box, more than 0.2 of it, and the call returns True
AssociationWitness ==
    /\ o_pc = "returned"
    /\ k = 2
    /\ o_result = TRUE
    /\ IntersectionArea(person_box, mbox) < Area(person_box)

Examined == o_pc \in {"loop", "returned"} /\ k >= 1

\* C9 as claimed: every person box inside a motorcycle box, boxes of no
\* width or no height included, makes the overlap test return True
ContainedAlwaysOverlaps ==
    (o_pc = "returned" /\ k >= 1 /\ Contains(mbox, person_box)) => o_result = TRUE

\* C9 amended: every person box of positive area inside a motorcycle box
\* makes the overlap test return True, and a person box of no width or no
\* height inside a motorcycle box does not
ContainedPositiveOverlaps ==
    (Examined /\ Contains(mbox, person_box)) =>
        IF Area(person_box) > 0
        THEN o_pc = "returned" /\ o_result = TRUE
        ELSE ~OverlapsOne(person_box, mbox) /\ (o_pc = "returned" => o_result = FALSE)

\* C9 witness: a person box of positive area that fills the motorcycle box
ContainedWitness ==
    /\ o_pc = "returned"
    /\ k = 1
    /\ Area(person_box) > 0
    /\ mbox = person_box
    /\ o_result = TRUE

\* C10: once the upload is saved, the temporary file is gone when the
\* response is returned, and it is unlinked exactly once
TempFileCleanedUp ==
    (v_pc = "done" /\ temp_created) => (~temp_exists /\ unlinks = 1)

====
